---- MODULE Spec2Model ----
(***************************************************************************)
(* State-machine model of components/player/hooks/desktop/                *)
(* useFullscreenControls.ts: the useFullscreenControls hook (capability   *)
(* probe, toggleFullscreen, the fullscreen-change subscription,           *)
(* togglePictureInPicture, showAirPlayMenu) and the DesktopSpeedMenu       *)
(* component (anchored speed menu).                                        *)
(*                                                                         *)
(* The host (document, window, screen, the elements behind the refs) is   *)
(* the environment: which methods it exposes and whether a call throws,   *)
(* resolves or rejects are inputs drawn with \E.                           *)
(***************************************************************************)
EXTENDS Integers, Sequences, FiniteSets, TLC

\* ---------------------------------------------------------------- bounds

\* Fullscreen-change events the host may have queued and not yet dispatched.
MaxEvents == 2

\* Handler closures that can be registered on the document at once (each run
\* of the subscription effect creates a fresh one).
MaxHandlers == 2

\* ------------------------------------------------------------- vocabulary

\* The entering chain on the container, in the order of the if/else-if chain.
EntryChain ==
    <<"requestFullscreen", "webkitRequestFullscreen",
      "mozRequestFullScreen", "msRequestFullscreen">>

\* The media element's native entry point.
NativeEntry == "webkitEnterFullscreen"

\* The exiting chain on the document, in the order of the if/else-if chain.
ExitChain ==
    <<"exitFullscreen", "webkitExitFullscreen",
      "mozCancelFullScreen", "msExitFullscreen">>

OrientationLock == "orientation.lock"

OrientationUnlock == "orientation.unlock"

\* The four "current fullscreen element" properties of the document.
DocProps ==
    {"fullscreenElement", "webkitFullscreenElement",
     "mozFullScreenElement", "msFullscreenElement"}

\* The four event names the subscription effect registers for.
EventNames ==
    {"fullscreenchange", "webkitfullscreenchange",
     "mozfullscreenchange", "MSFullscreenChange"}

Range(s) == {s[i] : i \in 1..Len(s)}

\* Slots for asynchronous command invocations in flight.
Slots == {1, 2}

VARIABLES
    hasDocument,        \* typeof document !== 'undefined'
    hasWindow,          \* typeof window !== 'undefined'
    mounted,            \* the hook's component is mounted (effects have run)
    activeHandler,      \* the handler the pending cleanup closes over (0: none)
    listeners,          \* document listeners: event name -> set of handlers
    isFullscreen,       \* shell state
    isPiPSupported,     \* shell state
    isAirPlaySupported, \* shell state
    containerPresent,   \* containerRef.current !== null
    videoPresent,       \* videoRef.current !== null
    docFs,              \* the DocProps that are non-null
    pipElement,         \* document.pictureInPictureElement is non-null
    pendingEvents,      \* fullscreen-change events queued by the host
    calls,              \* slot -> invocation of an async command
    last,               \* the operation that ran last, and what it did
    menuMounted,        \* DesktopSpeedMenu is mounted (buttonRef is set)
    showSpeedMenu,      \* the open flag (prop, owned by the parent)
    playbackRate,       \* the current value (prop, owned by the parent)
    menuPosition,       \* the component's state {top, left}
    buttonRect,         \* the trigger's bounding rect {bottom, right}
    boundaryPresent,    \* the menu's containerRef.current !== null
    boundaryRect,       \* the boundary's bounding rect {top, left}
    effectPending,      \* the position effect is scheduled for this render
    menuLast            \* the menu operation that ran last

coordVars ==
    <<hasDocument, hasWindow, mounted, activeHandler, listeners,
      isFullscreen, isPiPSupported, isAirPlaySupported, containerPresent,
      videoPresent, docFs, pipElement, pendingEvents, calls, last>>

menuVars ==
    <<menuMounted, showSpeedMenu, playbackRate, menuPosition, buttonRect,
      boundaryPresent, boundaryRect, effectPending, menuLast>>

vars == <<coordVars, menuVars>>

\* An invocation of an async command: cmd is the command, pc where it is
\* suspended, container / video whether the refs were set when it was invoked,
\* entering whether it read isFullscreen as false, exposed the methods the
\* host exposes to it, log the host methods
\* it invoked (in order), failed those of them that threw or rejected, promise
\* the state of the awaited host promise, outcome how the command's own
\* promise settled, raced whether another invocation was in flight when this
\* one was made.
IdleCall ==
    [cmd |-> "none", pc |-> "idle", container |-> FALSE, video |-> FALSE,
     entering |-> FALSE, exposed |-> {}, log |-> <<>>, failed |-> {},
     promise |-> "none", outcome |-> "none", raced |-> FALSE]

NoOp == [op |-> "init", arg |-> {}, hostCalls |-> <<>>, threw |-> ""]

\* Geometry the host can report for the trigger and the boundary.
ButtonRects == [bottom : {60, 100}, right : {30, 50}]

BoundaryRects == [top : {0, 20}, left : {0, 10}]

\* The candidate values of the menu (the speeds prop).
Speeds == <<1, 2>>

\* target is the option a select clicked (0: not a select).
NoMenuOp == [op |-> "init", target |-> 0, callbacks |-> <<>>]

Init ==
    /\ hasDocument \in BOOLEAN
    /\ hasWindow \in BOOLEAN
    /\ mounted = FALSE
    /\ activeHandler = 0
    /\ listeners = [e \in EventNames |-> {}]
    /\ isFullscreen = FALSE
    /\ isPiPSupported = FALSE
    /\ isAirPlaySupported = FALSE
    /\ containerPresent = FALSE
    /\ videoPresent = FALSE
    /\ docFs = {}
    /\ pipElement = FALSE
    /\ pendingEvents = 0
    /\ calls = [c \in Slots |-> IdleCall]
    /\ last = NoOp
    /\ menuMounted = FALSE
    /\ showSpeedMenu = FALSE
    /\ playbackRate = 1
    /\ menuPosition = [top |-> 0, left |-> 0]
    /\ buttonRect = [bottom |-> 0, right |-> 0]
    /\ boundaryPresent = FALSE
    /\ boundaryRect = [top |-> 0, left |-> 0]
    /\ effectPending = FALSE
    /\ menuLast = NoMenuOp

\* ------------------------------------------------------- capability probe

PiPFeature == "pictureInPictureEnabled"

AirPlayFeature == "WebKitPlaybackTargetAvailabilityEvent"

\* The feature flags a host of this kind can expose at all.
HostFeatures ==
    (IF hasDocument THEN {PiPFeature} ELSE {})
        \cup (IF hasWindow THEN {AirPlayFeature} ELSE {})

\* The probe without its typeof guards: it reads `document` and `window`
\* where they do not exist.
ProbeEffectUnguarded(doc, win, features, pip0, air0) ==
    [pip   |-> PiPFeature \in features,
     air   |-> AirPlayFeature \in features,
     wrote |-> {"setIsPiPSupported", "setIsAirPlaySupported"},
     threw |-> ~doc \/ ~win]

\* Lines 24-31: the two guarded writes of the probe effect. `features` are the
\* flags the host exposes; pip0/air0 are the shell's values before the effect.
ProbeEffect(doc, win, features, pip0, air0) ==
    [pip   |-> IF doc THEN PiPFeature \in features ELSE pip0,
     air   |-> IF win THEN AirPlayFeature \in features ELSE air0,
     wrote |-> (IF doc THEN {"setIsPiPSupported"} ELSE {})
                  \cup (IF win THEN {"setIsAirPlaySupported"} ELSE {}),
     threw |-> FALSE]


\* ------------------------------------------------- subscription lifecycle

\* Lines 120-123: addEventListener for the four names with one handler.
AddListeners(ls, h) == [e \in EventNames |-> ls[e] \cup {h}]

\* A cleanup whose last removal misses the registered name.
RemoveListenersThree(ls, h) ==
    [e \in EventNames |->
       IF e = "MSFullscreenChange" THEN ls[e] ELSE ls[e] \ {h}]

\* Lines 126-129: removeEventListener for the four names with that handler.
RemoveListeners(ls, h) == [e \in EventNames |-> ls[e] \ {h}]

Registered(ls) == UNION {ls[e] : e \in EventNames}

\* Line 97: each run of the effect creates a handler closure distinct from
\* every handler still registered.
FreshHandler(ls) ==
    CHOOSE h \in 1..MaxHandlers :
        /\ h \notin Registered(ls)
        /\ \A g \in 1..MaxHandlers : g \notin Registered(ls) => h <= g

Did(op, arg, hostCalls, threw) ==
    [op |-> op, arg |-> arg, hostCalls |-> hostCalls, threw |-> threw]

\* First render of the hook: the probe effect, then the subscription effect.
\* Without a document the subscription effect throws a ReferenceError at
\* document.addEventListener and the component never becomes active.
Mount(features) ==
    /\ ~mounted
    /\ Registered(listeners) # 1..MaxHandlers
    /\ LET p == ProbeEffect(hasDocument, hasWindow, features,
                            isPiPSupported, isAirPlaySupported)
           h == FreshHandler(listeners)
       IN  /\ isPiPSupported' = p.pip
           /\ isAirPlaySupported' = p.air
           /\ IF p.threw
                THEN /\ last' = Did("mount", features, <<>>, "probeEffect")
                     /\ UNCHANGED <<mounted, activeHandler, listeners>>
                ELSE IF hasDocument
                THEN /\ mounted' = TRUE
                     /\ activeHandler' = h
                     /\ listeners' = AddListeners(listeners, h)
                     /\ last' = Did("mount", features, <<>>, "")
                ELSE /\ last' = Did("mount", features, <<>>,
                                    "subscriptionEffect")
                     /\ UNCHANGED <<mounted, activeHandler, listeners>>
    /\ UNCHANGED <<hasDocument, hasWindow, isFullscreen, containerPresent,
                   videoPresent, docFs, pipElement, pendingEvents, calls,
                   menuVars>>

\* Unmount: the subscription effect's cleanup runs; React clears the refs of
\* the elements that leave the tree.
Unmount ==
    /\ mounted
    /\ mounted' = FALSE
    /\ listeners' = RemoveListeners(listeners, activeHandler)
    /\ activeHandler' = 0
    /\ containerPresent' = FALSE
    /\ videoPresent' = FALSE
    /\ last' = Did("unmount", {}, <<>>, "")
    /\ UNCHANGED <<hasDocument, hasWindow, isFullscreen, isPiPSupported,
                   isAirPlaySupported, docFs, pipElement, pendingEvents,
                   calls, menuVars>>

\* A render with a new setIsFullscreen (the effect's only dependency): the old
\* cleanup runs, then the effect again with a fresh handler closure.
Resubscribe ==
    /\ mounted
    /\ LET cleaned == RemoveListeners(listeners, activeHandler)
           h       == FreshHandler(cleaned)
       IN  /\ Registered(cleaned) # 1..MaxHandlers
           /\ activeHandler' = h
           /\ listeners' = AddListeners(cleaned, h)
    /\ last' = Did("resubscribe", {}, <<>>, "")
    /\ UNCHANGED <<hasDocument, hasWindow, mounted, isFullscreen,
                   isPiPSupported, isAirPlaySupported, containerPresent,
                   videoPresent, docFs, pipElement, pendingEvents, calls,
                   menuVars>>

\* A render with a new setIsPiPSupported or setIsAirPlaySupported: the probe
\* effect runs again.
Reprobe(features) ==
    /\ mounted
    /\ LET p == ProbeEffect(hasDocument, hasWindow, features,
                            isPiPSupported, isAirPlaySupported)
       IN  /\ isPiPSupported' = p.pip
           /\ isAirPlaySupported' = p.air
           /\ last' = Did("probe", features, <<>>,
                          IF p.threw THEN "probeEffect" ELSE "")
    /\ UNCHANGED <<hasDocument, hasWindow, mounted, activeHandler, listeners,
                   isFullscreen, containerPresent, videoPresent, docFs,
                   pipElement, pendingEvents, calls, menuVars>>

\* The shell mounts or unmounts the elements behind containerRef / videoRef.
\* Elements exist only in a host with a DOM.
SetRefs(c, v) ==
    /\ mounted
    /\ hasWindow
    /\ <<c, v>> # <<containerPresent, videoPresent>>
    /\ containerPresent' = c
    /\ videoPresent' = v
    /\ last' = Did("shell", {}, <<>>, "")
    /\ UNCHANGED <<hasDocument, hasWindow, mounted, activeHandler, listeners,
                   isFullscreen, isPiPSupported, isAirPlaySupported, docFs,
                   pipElement, pendingEvents, calls, menuVars>>

\* ------------------------------------------------------------------ host

\* A host-level transition into fullscreen of one of the player's elements
\* (host chrome, native controls, the media element's own entry point): the
\* document properties S become non-null and a change event is queued.
HostEnter(S) ==
    /\ containerPresent \/ videoPresent
    /\ docFs = {}
    /\ S # {}
    /\ pendingEvents < MaxEvents
    /\ docFs' = S
    /\ pendingEvents' = pendingEvents + 1
    /\ last' = Did("host", {}, <<>>, "")
    /\ UNCHANGED <<hasDocument, hasWindow, mounted, activeHandler, listeners,
                   isFullscreen, isPiPSupported, isAirPlaySupported,
                   containerPresent, videoPresent, pipElement, calls,
                   menuVars>>

\* A host-level transition out of fullscreen (Esc, host chrome, OS override).
HostExit ==
    /\ docFs # {}
    /\ pendingEvents < MaxEvents
    /\ docFs' = {}
    /\ pendingEvents' = pendingEvents + 1
    /\ last' = Did("host", {}, <<>>, "")
    /\ UNCHANGED <<hasDocument, hasWindow, mounted, activeHandler, listeners,
                   isFullscreen, isPiPSupported, isAirPlaySupported,
                   containerPresent, videoPresent, pipElement, calls,
                   menuVars>>

\* ------------------------------------------------- passive synchronization

\* The check without its last operand.
IsInFullscreenNoMs(fs) ==
    \/ "fullscreenElement" \in fs
    \/ "webkitFullscreenElement" \in fs
    \/ "mozFullScreenElement" \in fs

\* Lines 98-103: !!(fullscreenElement || webkit... || moz... || ms...).
IsInFullscreen(fs) ==
    \/ "fullscreenElement" \in fs
    \/ "webkitFullscreenElement" \in fs
    \/ "mozFullScreenElement" \in fs
    \/ "msFullscreenElement" \in fs

\* Lines 106-117: the orientation call of the handler. `exposed` are the
\* methods of screen.orientation, `r` is how the invoked method ends
\* ("ok", "reject", "throw"). lock(...) is followed by .catch, which handles a
\* rejection and not a synchronous throw; unlock() sits in try/catch.
HandlerOrientation(isIn, exposed, r) ==
    IF isIn
      THEN IF OrientationLock \in exposed
             THEN [hostCalls |-> <<OrientationLock>>,
                   threw |-> IF r = "throw" THEN OrientationLock ELSE ""]
             ELSE [hostCalls |-> <<>>, threw |-> ""]
      ELSE IF OrientationUnlock \in exposed
             THEN [hostCalls |-> <<OrientationUnlock>>, threw |-> ""]
             ELSE [hostCalls |-> <<>>, threw |-> ""]

\* A handler that only ever reports the transition into fullscreen.
HandleFullscreenChangeEnterOnly(e, exposed, r) ==
    /\ isFullscreen' = (isFullscreen \/ IsInFullscreenNoMs(docFs))
    /\ last' = Did("handleFullscreenChange", {e}, <<>>, "")

\* A handler that only ever reports the transition out of fullscreen.
HandleFullscreenChangeExitOnly(e, exposed, r) ==
    /\ isFullscreen' = (isFullscreen /\ IsInFullscreen(docFs))
    /\ last' = Did("handleFullscreenChange", {e}, <<>>, "")

\* Lines 97-118: handleFullscreenChange, run for event name e.
HandleFullscreenChange(e, exposed, r) ==
    LET isIn == IsInFullscreen(docFs)
        o    == HandlerOrientation(isIn, exposed, r)
    IN  /\ isFullscreen' = isIn
        /\ last' = Did("handleFullscreenChange", {e}, o.hostCalls, o.threw)

\* The host dispatches one queued change event under name e. The handler
\* registered for e runs; with none registered the event is dropped.
DispatchEvent(e, exposed, r) ==
    /\ pendingEvents > 0
    /\ pendingEvents' = pendingEvents - 1
    /\ IF listeners[e] # {}
         THEN HandleFullscreenChange(e, exposed, r)
         ELSE /\ last' = Did("host", {}, <<>>, "")
              /\ UNCHANGED isFullscreen
    /\ UNCHANGED <<hasDocument, hasWindow, mounted, activeHandler, listeners,
                   isPiPSupported, isAirPlaySupported, containerPresent,
                   videoPresent, docFs, pipElement, calls, menuVars>>

\* -------------------------------------------------------- toggleFullscreen

\* A chain whose last branch is missing.
FirstExistingSkipLast(chain, exposed) ==
    LET idx == {i \in 1..(Len(chain) - 1) : chain[i] \in exposed}
    IN  IF idx = {} THEN "none"
        ELSE chain[CHOOSE i \in idx : \A j \in idx : i <= j]

\* A chain that lets the last existing method win.
LastExisting(chain, exposed) ==
    LET idx == {i \in 1..Len(chain) : chain[i] \in exposed}
    IN  IF idx = {} THEN "none"
        ELSE chain[CHOOSE i \in idx : \A j \in idx : i >= j]

\* The first method of `chain` that exists on the host ("none": none does):
\* the if / else-if chains of lines 38-45 and 72-79.
FirstExisting(chain, exposed) ==
    LET idx == {i \in 1..Len(chain) : chain[i] \in exposed}
    IN  IF idx = {} THEN "none"
        ELSE chain[CHOOSE i \in idx : \A j \in idx : i <= j]

Finished(call, outcome) ==
    [call EXCEPT !.pc = "done", !.promise = "none", !.outcome = outcome]

Invoked(call, m) == [call EXCEPT !.log = Append(@, m)]

Failing(call, m) == [call EXCEPT !.failed = @ \cup {m}]

\* A catch block that only logs.
EnterCatchNoFallback(call, video, r) == Finished(call, "resolved")

\* Lines 59-69: the catch block of the entering branch. The error is logged;
\* the media element's native entry point is tried if it is there (video is
\* videoRef.current at that moment), inside its own try/catch.
EnterCatch(call, video, r) ==
    IF video /\ NativeEntry \in call.exposed
      THEN Finished(
             IF r = "throw"
               THEN Failing(Invoked(call, NativeEntry), NativeEntry)
               ELSE Invoked(call, NativeEntry),
             "resolved")
      ELSE Finished(call, "resolved")

\* The orientation lock without its own try/catch: a failure reaches the
\* catch block of the entering branch.
EnterLockUncaught(call, r) ==
    IF OrientationLock \in call.exposed
      THEN IF r = "throw"
             THEN EnterCatch(Failing(Invoked(call, OrientationLock),
                                     OrientationLock), call.video, r)
             ELSE [Invoked(call, OrientationLock) EXCEPT
                     !.pc = "awaitLock", !.promise = "pending"]
      ELSE Finished(call, "resolved")

\* Lines 51-58: the orientation lock after the chain, inside its own
\* try/catch. A synchronous throw is caught at once; otherwise the command
\* awaits the returned promise.
EnterLock(call, r) ==
    IF OrientationLock \in call.exposed
      THEN IF r = "throw"
             THEN Finished(Failing(Invoked(call, OrientationLock),
                                   OrientationLock), "resolved")
             ELSE [Invoked(call, OrientationLock) EXCEPT
                     !.pc = "awaitLock", !.promise = "pending"]
      ELSE Finished(call, "resolved")

\* Lines 37-49 up to the first suspension: the entering chain. r1 is how the
\* invoked method ends synchronously ("throw", or it returns), r2 how the
\* call after it does.
EnterChain(call, video, r1, r2) ==
    LET m == FirstExisting(EntryChain, call.exposed)
    IN  IF m # "none"
          THEN IF r1 = "throw"
                 THEN EnterCatch(Failing(Invoked(call, m), m), video, r2)
                 ELSE [Invoked(call, m) EXCEPT
                         !.pc = "awaitEntry", !.promise = "pending"]
        ELSE IF video /\ NativeEntry \in call.exposed
          THEN IF r1 = "throw"
                 THEN EnterCatch(Failing(Invoked(call, NativeEntry),
                                         NativeEntry), video, r2)
                 ELSE EnterLock(Invoked(call, NativeEntry), r2)
        ELSE EnterLock(call, r2)

\* Lines 82-89: the orientation unlock after the exit chain (synchronous,
\* inside its own try/catch).
ExitUnlock(call, r) ==
    IF OrientationUnlock \in call.exposed
      THEN Finished(
             IF r = "throw"
               THEN Failing(Invoked(call, OrientationUnlock),
                            OrientationUnlock)
               ELSE Invoked(call, OrientationUnlock),
             "resolved")
      ELSE Finished(call, "resolved")

\* Lines 90-92: the catch block of the exiting branch (logs, nothing else).
ExitCatch(call) == Finished(call, "resolved")

\* Lines 71-80 up to the first suspension: the exit chain.
ExitChainStep(call, r1, r2) ==
    LET m == FirstExisting(ExitChain, call.exposed)
    IN  IF m # "none"
          THEN IF r1 = "throw"
                 THEN ExitCatch(Failing(Invoked(call, m), m))
                 ELSE [Invoked(call, m) EXCEPT
                         !.pc = "awaitExit", !.promise = "pending"]
          ELSE ExitUnlock(call, r2)

\* What the host can expose to an entering and to an exiting call.
EntryExposable == Range(EntryChain) \cup {NativeEntry, OrientationLock}

ExitExposable == Range(ExitChain) \cup {OrientationUnlock}

\* A command without the early return of line 34.
ToggleFullscreenCallNoGuard(container, fullscreen, video, exposed, r1, r2) ==
    LET call == [IdleCall EXCEPT !.cmd = "toggleFullscreen",
                                 !.container = container,
                                 !.video = video,
                                 !.entering = ~fullscreen,
                                 !.exposed = exposed]
    IN  IF ~fullscreen THEN EnterChain(call, video, r1, r2)
        ELSE ExitChainStep(call, r1, r2)

\* Lines 33-36 and on to the first suspension point: toggleFullscreen is
\* invoked in slot c; the host exposes `exposed`.
ToggleFullscreenCall(container, fullscreen, video, exposed, r1, r2) ==
    LET call == [IdleCall EXCEPT !.cmd = "toggleFullscreen",
                                 !.container = container,
                                 !.video = video,
                                 !.entering = ~fullscreen,
                                 !.exposed = exposed]
    IN  IF ~container THEN Finished(call, "resolved")
        ELSE IF ~fullscreen THEN EnterChain(call, video, r1, r2)
        ELSE ExitChainStep(call, r1, r2)

\* The methods a call invoked now can look up: none without a container, and
\* only the chain of the branch taken otherwise. What the host exposes beyond
\* them makes no difference to the call.
Exposable ==
    IF ~containerPresent THEN {}
    ELSE IF isFullscreen THEN ExitExposable ELSE EntryExposable

\* A command that sets the flag itself once its request went through.
FullscreenAfterCommandOptimistic(call, fullscreen) ==
    IF call.pc = "done" /\ call.log # <<>> /\ call.failed = {}
      THEN call.entering
      ELSE fullscreen

\* Lines 33-94 hold no call of setIsFullscreen: a step of the command leaves
\* the shell's isFullscreen (fullscreen) as it is.
FullscreenAfterCommand(call, fullscreen) == fullscreen

\* Some invocation in the slots cs is suspended at an await.
InFlight(cs) == \E d \in cs : calls[d].pc \notin {"idle", "done"}

ToggleFullscreen(c, exposed, r1, r2) ==
    /\ mounted
    /\ calls[c].pc \in {"idle", "done"}
    /\ exposed \subseteq EntryExposable \cup ExitExposable
    /\ calls' = [calls EXCEPT ![c] =
                   [ToggleFullscreenCall(containerPresent, isFullscreen,
                                         videoPresent, exposed, r1, r2)
                      EXCEPT !.raced = InFlight(Slots \ {c})]]
    /\ isFullscreen' = FullscreenAfterCommand(calls'[c], isFullscreen)
    /\ last' = Did("toggleFullscreen", {}, <<>>, "")
    /\ UNCHANGED <<hasDocument, hasWindow, mounted, activeHandler, listeners,
                   isPiPSupported, isAirPlaySupported, containerPresent,
                   videoPresent, docFs, pipElement, pendingEvents, menuVars>>

\* The continuation of toggleFullscreen after the awaited promise settled.
ToggleFullscreenResume(call, video, r) ==
    CASE call.pc = "awaitEntry" ->
           IF call.promise = "fulfilled"
             THEN EnterLock(call, r)
             ELSE EnterCatch(Failing(call, call.log[Len(call.log)]), video, r)
      [] call.pc = "awaitLock" ->
           IF call.promise = "fulfilled"
             THEN Finished(call, "resolved")
             ELSE Finished(Failing(call, OrientationLock), "resolved")
      [] call.pc = "awaitExit" ->
           IF call.promise = "fulfilled"
             THEN ExitUnlock(call, r)
             ELSE ExitCatch(Failing(call, call.log[Len(call.log)]))

\* ------------------------------------------------- togglePictureInPicture

\* A command that always asks to enter, whatever the document shows.
TogglePictureInPictureCallAlwaysRequest(video, supported, pip, r1) ==
    LET call == [IdleCall EXCEPT !.cmd = "togglePictureInPicture",
                                 !.video = video]
        m    == "requestPictureInPicture"
    IN  IF ~video \/ ~supported THEN Finished(call, "resolved")
        ELSE IF r1 = "throw"
          THEN Finished(Failing(Invoked(call, m), m), "resolved")
        ELSE [Invoked(call, m) EXCEPT !.pc = "awaitPiP",
                                      !.promise = "pending"]

\* Lines 133-144 up to the suspension: the guard, then one request inside
\* try/catch.
TogglePictureInPictureCall(video, supported, pip, r1) ==
    LET call == [IdleCall EXCEPT !.cmd = "togglePictureInPicture",
                                 !.video = video]
        m    == IF pip THEN "exitPictureInPicture"
                ELSE "requestPictureInPicture"
    IN  IF ~video \/ ~supported THEN Finished(call, "resolved")
        ELSE IF r1 = "throw"
          THEN Finished(Failing(Invoked(call, m), m), "resolved")
        ELSE [Invoked(call, m) EXCEPT !.pc = "awaitPiP",
                                      !.promise = "pending"]

TogglePictureInPicture(c, r1) ==
    /\ mounted
    /\ calls[c].pc \in {"idle", "done"}
    /\ calls' = [calls EXCEPT ![c] =
                   TogglePictureInPictureCall(videoPresent, isPiPSupported,
                                              pipElement, r1)]
    /\ last' = Did("togglePictureInPicture", {}, <<>>, "")
    /\ UNCHANGED <<hasDocument, hasWindow, mounted, activeHandler, listeners,
                   isFullscreen, isPiPSupported, isAirPlaySupported,
                   containerPresent, videoPresent, docFs, pipElement,
                   pendingEvents, menuVars>>

\* Lines 141-143: the continuation after the awaited PiP promise settled.
TogglePictureInPictureResume(call) ==
    IF call.promise = "fulfilled"
      THEN Finished(call, "resolved")
      ELSE Finished(Failing(call, call.log[Len(call.log)]), "resolved")

\* ------------------------------------------------------ awaited promises

\* The host settles the promise the call in slot c awaits. A granted
\* fullscreen request or exit changes the document and queues a change
\* event; a granted PiP request changes document.pictureInPictureElement.
HostSettle(c, granted, S) ==
    LET call == calls[c]
        m    == call.log[Len(call.log)]
    IN  /\ call.promise = "pending"
        /\ calls' = [calls EXCEPT ![c].promise =
                       IF granted THEN "fulfilled" ELSE "rejected"]
        /\ IF granted /\ call.pc = "awaitEntry" /\ docFs = {}
             THEN /\ S # {}
                  /\ pendingEvents < MaxEvents
                  /\ docFs' = S
                  /\ pendingEvents' = pendingEvents + 1
                  /\ UNCHANGED pipElement
           ELSE IF granted /\ call.pc = "awaitExit" /\ docFs # {}
             THEN /\ pendingEvents < MaxEvents
                  /\ docFs' = {}
                  /\ pendingEvents' = pendingEvents + 1
                  /\ UNCHANGED pipElement
           ELSE IF granted /\ call.pc = "awaitPiP"
             THEN /\ pipElement' = (m = "requestPictureInPicture")
                  /\ UNCHANGED <<docFs, pendingEvents>>
           ELSE UNCHANGED <<docFs, pendingEvents, pipElement>>
        /\ last' = Did("host", {}, <<>>, "")
        /\ UNCHANGED <<hasDocument, hasWindow, mounted, activeHandler,
                       listeners, isFullscreen, isPiPSupported,
                       isAirPlaySupported, containerPresent, videoPresent,
                       menuVars>>

\* The command in slot c runs on from its await to the next suspension point
\* or to its end.
Resume(c, r) ==
    LET call == calls[c]
    IN  /\ call.promise \in {"fulfilled", "rejected"}
        /\ calls' = [calls EXCEPT ![c] =
                       IF call.cmd = "togglePictureInPicture"
                         THEN TogglePictureInPictureResume(call)
                         ELSE ToggleFullscreenResume(call, videoPresent, r)]
        /\ isFullscreen' =
             IF call.cmd = "togglePictureInPicture" THEN isFullscreen
             ELSE FullscreenAfterCommand(calls'[c], isFullscreen)
        /\ last' = Did(call.cmd, {}, <<>>, "")
        /\ UNCHANGED <<hasDocument, hasWindow, mounted, activeHandler,
                       listeners, isPiPSupported, isAirPlaySupported,
                       containerPresent, videoPresent, docFs, pipElement,
                       pendingEvents, menuVars>>

\* -------------------------------------------------------- showAirPlayMenu

Picker == "webkitShowPlaybackTargetPicker"

\* Lines 146-152: synchronous, no try/catch: a throw of the picker leaves the
\* command.
ShowAirPlayMenuCall(video, supported, exposed, r) ==
    IF ~video \/ ~supported THEN [hostCalls |-> <<>>, threw |-> ""]
    ELSE IF Picker \in exposed
      THEN [hostCalls |-> <<Picker>>,
            threw |-> IF r = "throw" THEN Picker ELSE ""]
    ELSE [hostCalls |-> <<>>, threw |-> ""]

ShowAirPlayMenu(exposed, r) ==
    /\ mounted
    /\ LET o == ShowAirPlayMenuCall(videoPresent, isAirPlaySupported,
                                    exposed, r)
       IN  last' = Did("showAirPlayMenu", {}, o.hostCalls, o.threw)
    /\ UNCHANGED <<hasDocument, hasWindow, mounted, activeHandler, listeners,
                   isFullscreen, isPiPSupported, isAirPlaySupported,
                   containerPresent, videoPresent, docFs, pipElement,
                   pendingEvents, calls, menuVars>>

\* -------------------------------------------------------- DesktopSpeedMenu

\* The fixed vertical offset below the trigger (lines 194 and 206).
MenuOffset == 10

\* Lines 193-196: the position the effect computes.
EffectPosition(b, c) ==
    [top |-> b.bottom - c.top + MenuOffset, left |-> b.right - c.left]

\* The click handler's position without the vertical offset.
TogglePositionNoOffset(b, c) ==
    [top |-> b.bottom - c.top, left |-> b.right - c.left]

\* Lines 205-208: the position the click handler computes.
TogglePosition(b, c) ==
    [top |-> b.bottom - c.top + MenuOffset, left |-> b.right - c.left]

MenuDid(op, callbacks) == [op |-> op, target |-> 0, callbacks |-> callbacks]

Callback(name, arg) == [name |-> name, arg |-> arg]

\* First render of the menu: state is initialised (line 186), the button ref
\* is set, and the position effect is scheduled.
MenuMount ==
    /\ ~menuMounted
    /\ menuMounted' = TRUE
    /\ menuPosition' = [top |-> 0, left |-> 0]
    /\ effectPending' = TRUE
    /\ menuLast' = MenuDid("mount", <<>>)
    /\ UNCHANGED <<coordVars, showSpeedMenu, playbackRate, buttonRect,
                   boundaryPresent, boundaryRect>>

MenuUnmount ==
    /\ menuMounted
    /\ ~effectPending
    /\ menuMounted' = FALSE
    /\ menuLast' = MenuDid("unmount", <<>>)
    /\ UNCHANGED <<coordVars, showSpeedMenu, playbackRate, menuPosition,
                   buttonRect, boundaryPresent, boundaryRect, effectPending>>

\* Lines 188-198: the position effect (dependencies showSpeedMenu and
\* containerRef), run by React after the render that scheduled it.
PositionEffect ==
    /\ effectPending
    /\ effectPending' = FALSE
    /\ menuPosition' =
         IF showSpeedMenu /\ menuMounted /\ boundaryPresent
           THEN EffectPosition(buttonRect, boundaryRect)
           ELSE menuPosition
    /\ menuLast' = MenuDid("effect", <<>>)
    /\ UNCHANGED <<coordVars, menuMounted, showSpeedMenu, playbackRate,
                   buttonRect, boundaryPresent, boundaryRect>>

\* The parent's open flag after the callbacks cs: onToggleSpeedMenu flips it.
OpenAfter(cs, open) ==
    IF \E k \in 1..Len(cs) : cs[k].name = "onToggleSpeedMenu"
      THEN ~open ELSE open

\* A click handler that notifies the parent before it stores the position.
HandleToggleCallsNotifyFirst(open, button, boundary) ==
    IF ~open /\ button /\ boundary
      THEN <<Callback("onToggleSpeedMenu", 0), Callback("setMenuPosition", 0)>>
      ELSE <<Callback("onToggleSpeedMenu", 0)>>

\* Lines 200-211: what handleToggle calls, in order. open is showSpeedMenu,
\* button and boundary whether buttonRef.current and containerRef.current
\* are set.
HandleToggleCalls(open, button, boundary) ==
    IF ~open /\ button /\ boundary
      THEN <<Callback("setMenuPosition", 0), Callback("onToggleSpeedMenu", 0)>>
      ELSE <<Callback("onToggleSpeedMenu", 0)>>

\* Lines 200-211: handleToggle, the trigger's click handler. The parent's
\* onToggleSpeedMenu flips the open flag, which schedules the effect.
HandleToggle ==
    /\ menuMounted
    /\ ~effectPending
    /\ LET cs == HandleToggleCalls(showSpeedMenu, menuMounted,
                                   boundaryPresent)
       IN  /\ menuPosition' =
                IF \E k \in 1..Len(cs) : cs[k].name = "setMenuPosition"
                  THEN TogglePosition(buttonRect, boundaryRect)
                  ELSE menuPosition
           /\ menuLast' = MenuDid("handleToggle", cs)
           /\ showSpeedMenu' = OpenAfter(cs, showSpeedMenu)
    /\ effectPending' = TRUE
    /\ UNCHANGED <<coordVars, menuMounted, playbackRate, buttonRect,
                   boundaryPresent, boundaryRect>>

\* Line 254: the popover is rendered (and can be clicked) when the open flag
\* is set and a document exists.
PopoverRendered == menuMounted /\ showSpeedMenu /\ hasDocument

\* Lines 242-251: the trigger button is part of every render.
TriggerRendered == menuMounted

\* A portal that only ever targets the boundary element.
PortalTargetBoundaryOnly == "boundary"

\* Line 254: the portal's target.
PortalTarget == IF boundaryPresent THEN "boundary" ELSE "body"

\* An option whose click handler also notifies the toggle callback.
OptionClickAndToggle(speed) ==
    <<Callback("onSpeedChange", speed), Callback("onToggleSpeedMenu", 0)>>

\* Line 228: the click handler of the option rendered for `speed`.
OptionClick(speed) == <<Callback("onSpeedChange", speed)>>

\* Lines 225-236: a click on the option of value speed runs its handler; the
\* parent stores the new rate.
SelectSpeed(speed) ==
    /\ PopoverRendered
    /\ ~effectPending
    /\ menuLast' = [MenuDid("select", OptionClick(speed)) EXCEPT
                      !.target = speed]
    /\ playbackRate' = speed
    /\ showSpeedMenu' = OpenAfter(menuLast'.callbacks, showSpeedMenu)
    /\ effectPending' = (showSpeedMenu' # showSpeedMenu)
    /\ UNCHANGED <<coordVars, menuMounted, menuPosition, buttonRect,
                   boundaryPresent, boundaryRect>>

\* The parent changes the open flag on its own (hover timer, selection).
ParentSetOpen(open) ==
    /\ ~effectPending
    /\ open # showSpeedMenu
    /\ showSpeedMenu' = open
    /\ effectPending' = menuMounted
    /\ menuLast' = MenuDid("parent", <<>>)
    /\ UNCHANGED <<coordVars, menuMounted, playbackRate, menuPosition,
                   buttonRect, boundaryPresent, boundaryRect>>

\* Layout changes: the trigger or the boundary moves; the boundary element
\* is mounted or unmounted.
Layout(b, c, present) ==
    /\ ~effectPending
    /\ <<b, c, present>> # <<buttonRect, boundaryRect, boundaryPresent>>
    /\ buttonRect' = b
    /\ boundaryRect' = c
    /\ boundaryPresent' = present
    /\ menuLast' = MenuDid("layout", <<>>)
    /\ UNCHANGED <<coordVars, menuMounted, showSpeedMenu, playbackRate,
                   menuPosition, effectPending>>

\* ---------------------------------------------------------- specifications

\* How a synchronous host call can end, and how the handler's lock call can.
SyncResults == {"ok", "throw"}

LockResults == {"ok", "reject", "throw"}

OrientationMethods == {OrientationLock, OrientationUnlock}

\* The property sets a host may populate while in fullscreen.
Flavours == (SUBSET DocProps) \ {{}}

\* Every set of methods a host can expose to one toggleFullscreen call.
Exposures == (SUBSET EntryExposable) \cup (SUBSET ExitExposable)

\* The hosts of the whole-program specification: a standard browser (its
\* entering and its exiting side), a prefixed one, one with fullscreen on the
\* media element only, and one with no fullscreen support.
HostProfiles ==
    {{"requestFullscreen", OrientationLock},
     {"exitFullscreen", OrientationUnlock},
     {"webkitRequestFullscreen", NativeEntry},
     {NativeEntry},
     {}}

StandardFlavours == {{"fullscreenElement"}, {"webkitFullscreenElement"}}

Lifecycle ==
    \/ \E features \in SUBSET HostFeatures : Mount(features)
    \/ Unmount
    \/ Resubscribe
    \/ \E features \in SUBSET HostFeatures : Reprobe(features)
    \/ \E c \in BOOLEAN, v \in BOOLEAN : SetRefs(c, v)

FullscreenCommands(exposures) ==
    \/ \E exposed \in {x \in exposures : x \subseteq Exposable},
          r1 \in SyncResults, r2 \in SyncResults :
          ToggleFullscreen(1, exposed, r1, r2)
    \/ \E r \in SyncResults : Resume(1, r)

OtherCommands ==
    \/ \E r1 \in SyncResults : TogglePictureInPicture(1, r1)
    \/ \E exposed \in SUBSET {Picker}, r \in SyncResults :
          ShowAirPlayMenu(exposed, r)

Host(flavours) ==
    \/ \E S \in flavours : HostEnter(S)
    \/ HostExit
    \/ \E granted \in BOOLEAN, S \in flavours : HostSettle(1, granted, S)

\* The whole coordinator: every operation, on the hosts of HostProfiles.
Next ==
    \/ Lifecycle
    \/ FullscreenCommands(HostProfiles)
    \/ OtherCommands
    \/ Host(StandardFlavours)
    \/ \E e \in EventNames, r \in LockResults :
          DispatchEvent(e, OrientationMethods, r)

Spec == Init /\ [][Next]_vars

\* The subscription and the passive synchronization on every host flavour,
\* without commands.
NextSync ==
    \/ Lifecycle
    \/ \E S \in Flavours : HostEnter(S)
    \/ HostExit
    \/ \E e \in EventNames, exposed \in SUBSET OrientationMethods,
          r \in LockResults : DispatchEvent(e, exposed, r)

SpecSync == Init /\ [][NextSync]_vars

\* toggleFullscreen on every host (every set of exposed methods), with the
\* passive handler.
NextCmd ==
    \/ Mount(HostFeatures)
    \/ \E c \in BOOLEAN, v \in BOOLEAN : SetRefs(c, v)
    \/ FullscreenCommands(Exposures)
    \/ Host({{"fullscreenElement"}})
    \/ DispatchEvent("fullscreenchange", {}, "ok")

SpecCmd == Init /\ [][NextCmd]_vars

\* The coordinator while it stays active, with the event loop's guarantee
\* that a queued change event is dispatched.
NextLive ==
    \/ Mount(HostFeatures)
    \/ Resubscribe
    \/ \E c \in BOOLEAN, v \in BOOLEAN : SetRefs(c, v)
    \/ FullscreenCommands(HostProfiles)
    \/ Host(StandardFlavours)
    \/ \E e \in EventNames, r \in LockResults :
          DispatchEvent(e, OrientationMethods, r)

SpecLive ==
    /\ Init
    /\ [][NextLive]_vars
    /\ WF_vars(\E e \in EventNames, r \in LockResults :
                 DispatchEvent(e, OrientationMethods, r))

\* The hosts of the double-invocation specification.
RaceProfiles ==
    {{"requestFullscreen", OrientationLock},
     {"exitFullscreen", OrientationUnlock},
     {NativeEntry}}

\* Two toggleFullscreen invocations that can be in flight at once, on a
\* mounted coordinator, with the host settling their promises and
\* dispatching change events in any order.
NextRace ==
    \/ Mount(HostFeatures)
    \/ Resubscribe
    \/ SetRefs(TRUE, TRUE)
    \/ \E c \in Slots, exposed \in {x \in RaceProfiles : x \subseteq Exposable},
          r1 \in SyncResults, r2 \in SyncResults :
          ToggleFullscreen(c, exposed, r1, r2)
    \/ \E c \in Slots, r \in SyncResults : Resume(c, r)
    \/ \E c \in Slots, granted \in BOOLEAN :
          HostSettle(c, granted, {"fullscreenElement"})
    \/ HostEnter({"fullscreenElement"})
    \/ HostExit
    \/ DispatchEvent("fullscreenchange", OrientationMethods, "ok")

SpecRace == Init /\ [][NextRace]_vars

\* A host that exposes every fullscreen and orientation method.
FullHost == EntryExposable \cup ExitExposable

\* toggleFullscreen on hosts that expose methods whether or not the
\* container is mounted.
NextAbsent ==
    \/ Mount(HostFeatures)
    \/ \E c \in BOOLEAN, v \in BOOLEAN : SetRefs(c, v)
    \/ \E exposed \in HostProfiles \cup {FullHost},
          r1 \in SyncResults, r2 \in SyncResults :
          ToggleFullscreen(1, exposed, r1, r2)
    \/ \E r \in SyncResults : Resume(1, r)
    \/ Host({{"fullscreenElement"}})
    \/ DispatchEvent("fullscreenchange", OrientationMethods, "ok")

SpecAbsent == Init /\ [][NextAbsent]_vars

\* The speed menu.
NextMenu ==
    \/ MenuMount
    \/ MenuUnmount
    \/ PositionEffect
    \/ HandleToggle
    \/ \E i \in 1..Len(Speeds) : SelectSpeed(Speeds[i])
    \/ \E open \in BOOLEAN : ParentSetOpen(open)
    \/ \E b \in ButtonRects, c \in BoundaryRects, present \in BOOLEAN :
          Layout(b, c, present)

SpecMenu == Init /\ [][NextMenu]_vars

\* ------------------------------------------------------------------ claims

TheCall == calls[1]

\* The fullscreen-entry and -exit methods a call invoked, in order.
EntryMethods == Range(EntryChain) \cup {NativeEntry}

ExitMethods == Range(ExitChain)

IsChainMethod(m) == m \in EntryMethods \cup ExitMethods

ChainCalls(call) == SelectSeq(call.log, IsChainMethod)

\* C1: whenever the passive handler has just run (for any of the four event
\* names), isFullscreen is the OR of "is non-null" over the four document
\* properties as they are at that instant.
C1_HandlerWritesOr ==
    last.op = "handleFullscreenChange" =>
        /\ last.arg \subseteq EventNames
        /\ isFullscreen = (\E p \in DocProps : p \in docFs)

C1_Witness ==
    /\ last.op = "handleFullscreenChange"
    /\ last.arg = {"MSFullscreenChange"}
    /\ docFs = {"msFullscreenElement"}
    /\ isFullscreen

\* C2: no step of toggleFullscreen changes isFullscreen, and every step that
\* changes it is a run of the passive handler.
C2_Step ==
    /\ last'.op = "toggleFullscreen" => isFullscreen' = isFullscreen
    /\ isFullscreen' # isFullscreen => last'.op = "handleFullscreenChange"

C2_OnlyHandlerWrites == [][C2_Step]_vars

C2_Witness ==
    /\ last.op = "toggleFullscreen"
    /\ TheCall.pc = "done"
    /\ TheCall.entering
    /\ TheCall.log = <<"requestFullscreen", OrientationLock>>
    /\ TheCall.failed = {}
    /\ docFs # {}
    /\ ~isFullscreen

\* C3: whenever isFullscreen differs from "a fullscreen element exists in the
\* document", a state in which they agree is eventually reached.
Stale == isFullscreen # (docFs # {})

C3_EventuallyConsistent == Stale ~> ~Stale

C3_Witness ==
    /\ Stale
    /\ TheCall.pc = "awaitEntry"
    /\ TheCall.promise = "pending"
    /\ docFs # {}

\* C4: when the host exposes exactly one method of the chain a call walks and
\* the invocation of that method succeeds, the call invokes that method once
\* and no other method of the chain.
OnlyMethod(call, m) ==
    /\ call.cmd = "toggleFullscreen"
    /\ call.container
    /\ call.pc = "done"
    /\ call.exposed \cap (EntryMethods \cup ExitMethods) = {m}
    /\ m = NativeEntry => call.video
    /\ m \notin call.failed

C4_OnlyKthInvoked ==
    \A m \in EntryMethods \cup ExitMethods :
        OnlyMethod(TheCall, m) => ChainCalls(TheCall) = <<m>>

C4_Witness ==
    /\ OnlyMethod(TheCall, "msRequestFullscreen")
    /\ TheCall.log = <<"msRequestFullscreen", OrientationLock>>
    /\ OrientationLock \in TheCall.failed

\* The method the entering chain of lines 38-49 selects for a call.
FirstEntry(call) ==
    LET idx == {i \in 1..Len(EntryChain) : EntryChain[i] \in call.exposed}
    IN  IF idx # {}
          THEN EntryChain[CHOOSE i \in idx : \A j \in idx : i <= j]
        ELSE IF call.video /\ NativeEntry \in call.exposed
          THEN NativeEntry
        ELSE "none"

EnteringCall(call) ==
    call.cmd = "toggleFullscreen" /\ call.container /\ call.entering

\* C5 as stated: an entering call that finds an entry method invokes exactly
\* one entry method, the first that exists, also when that invocation fails.
C5_ExactlyOneEntry ==
    (EnteringCall(TheCall) /\ FirstEntry(TheCall) # "none"
        /\ TheCall.pc = "done")
    => ChainCalls(TheCall) = <<FirstEntry(TheCall)>>

\* C5 amended: the chain invokes the first entry method that exists and no
\* other (none if none exists); a second entry invocation happens only after
\* the first one threw or rejected, and it is the media element's native
\* entry point, invoked once.
C5_FirstThenFallback ==
    EnteringCall(TheCall) =>
        LET f == FirstEntry(TheCall)
            k == ChainCalls(TheCall)
        IN  /\ f = "none" => k = <<>>
            /\ f # "none" => k \in {<<f>>, <<f, NativeEntry>>}
            /\ Len(k) = 2 => f \in TheCall.failed
            /\ (TheCall.pc = "done" /\ f \notin TheCall.failed) => Len(k) <= 1

C5_Witness ==
    /\ EnteringCall(TheCall)
    /\ TheCall.pc = "done"
    /\ {"requestFullscreen", "mozRequestFullScreen"} \subseteq TheCall.exposed
    /\ TheCall.log = <<"requestFullscreen", NativeEntry>>
    /\ TheCall.failed = {"requestFullscreen"}

\* C6 as stated: no command throws to its caller or returns a promise that
\* rejects, whatever the host calls do.
C6_NoCommandFails ==
    /\ \A c \in Slots : calls[c].outcome # "rejected"
    /\ last.op \in {"toggleFullscreen", "togglePictureInPicture",
                    "showAirPlayMenu"} => last.threw = ""

\* C7: when only the orientation call of a toggleFullscreen call failed, the
\* call has ended with its promise resolved and has invoked no entry or exit
\* method besides the one that succeeded.
OrientationFailed(call) ==
    /\ call.cmd = "toggleFullscreen"
    /\ call.failed \cap OrientationMethods # {}

C7_OrientationFailureSwallowed ==
    /\ TheCall.cmd = "toggleFullscreen" => TheCall.outcome # "rejected"
    /\ OrientationFailed(TheCall) =>
          /\ TheCall.pc = "done"
          /\ TheCall.outcome = "resolved"
          /\ TheCall.failed \subseteq OrientationMethods
          /\ Len(ChainCalls(TheCall)) <= 1
          /\ TheCall.log[Len(TheCall.log)] \in OrientationMethods

C7_Witness ==
    /\ OrientationFailed(TheCall)
    /\ TheCall.video
    /\ NativeEntry \in TheCall.exposed
    /\ TheCall.log = <<"requestFullscreen", OrientationLock>>
    /\ TheCall.failed = {OrientationLock}
    /\ TheCall.outcome = "resolved"

\* C8: a run of the probe writes each support flag exactly when document /
\* window exists, with the host's feature flag, and does not throw; without
\* them the flags keep their value (false from the start); no other step
\* changes a support flag.
ProbeOps == {"mount", "probe"}

C8_Step ==
    /\ last'.op \in ProbeOps =>
          /\ isPiPSupported' =
               IF hasDocument THEN PiPFeature \in last'.arg
               ELSE isPiPSupported
          /\ isAirPlaySupported' =
               IF hasWindow THEN AirPlayFeature \in last'.arg
               ELSE isAirPlaySupported
          /\ last'.threw # "probeEffect"
    /\ last'.op \notin ProbeOps =>
          UNCHANGED <<isPiPSupported, isAirPlaySupported>>
    /\ ~hasDocument => ~isPiPSupported'
    /\ ~hasWindow => ~isAirPlaySupported'

C8_ProbeOnly == [][C8_Step]_vars

C8_Witness ==
    /\ last.op = "mount"
    /\ ~hasDocument
    /\ ~hasWindow
    /\ ~isPiPSupported
    /\ ~isAirPlaySupported

\* C9: while the coordinator is mounted the document holds exactly one
\* handler per event name, the one the pending cleanup will remove; once it
\* is unmounted it holds none.
C9_TeardownSymmetry ==
    \A e \in EventNames :
        /\ mounted => listeners[e] = {activeHandler} /\ activeHandler # 0
        /\ ~mounted => listeners[e] = {}

C9_Witness ==
    /\ last.op = "unmount"
    /\ ~mounted
    /\ \A e \in EventNames : listeners[e] = {}

\* C10: a position computed on open, by the click handler or by the effect,
\* is top = trigger.bottom - boundary.top + 10, left = trigger.right -
\* boundary.left.
C10_Formula(b, c) ==
    [top |-> b.bottom - c.top + 10, left |-> b.right - c.left]

C10_PositionOnOpen ==
    (menuLast.op \in {"handleToggle", "effect"}
        /\ showSpeedMenu /\ boundaryPresent)
    => menuPosition = C10_Formula(buttonRect, boundaryRect)

C10_Witness ==
    /\ menuLast.op = "handleToggle"
    /\ showSpeedMenu
    /\ boundaryPresent
    /\ buttonRect = [bottom |-> 100, right |-> 50]
    /\ boundaryRect = [top |-> 20, left |-> 10]
    /\ menuPosition = [top |-> 90, left |-> 40]

\* C11: a select step invokes onSpeedChange once with the clicked value and
\* nothing else, and leaves the open flag and the stored position as they
\* are; the open flag goes from true to false only in a step of the toggle
\* or of the parent.
C11_Step ==
    /\ menuLast'.op = "select" =>
          /\ menuLast'.callbacks =
                <<[name |-> "onSpeedChange", arg |-> menuLast'.target]>>
          /\ showSpeedMenu' = showSpeedMenu
          /\ menuPosition' = menuPosition
    /\ (showSpeedMenu /\ ~showSpeedMenu') =>
          menuLast'.op \in {"handleToggle", "parent"}

C11_SelectFrame == [][C11_Step]_vars

C11_Witness ==
    /\ menuLast.op = "select"
    /\ menuLast.target = 2
    /\ menuLast.callbacks = <<[name |-> "onSpeedChange", arg |-> 2]>>
    /\ playbackRate = 2
    /\ showSpeedMenu
    /\ menuPosition = [top |-> 90, left |-> 40]

\* C12: a step of togglePictureInPicture that starts a call invokes nothing
\* when the media element is absent or isPiPSupported is false, and otherwise
\* exactly one request: exitPictureInPicture if the document has a
\* picture-in-picture element, requestPictureInPicture if not; a step that
\* resumes the call after the request settled invokes nothing more and ends
\* the call resolved, with the request marked failed if it was rejected.
C12_Step ==
    last'.op = "togglePictureInPicture" =>
        LET after == calls'[1]
        IN  IF TheCall.pc \in {"idle", "done"}
              THEN /\ (~videoPresent \/ ~isPiPSupported) =>
                         after.log = <<>> /\ after.pc = "done"
                   /\ (videoPresent /\ isPiPSupported /\ pipElement) =>
                         after.log = <<"exitPictureInPicture">>
                   /\ (videoPresent /\ isPiPSupported /\ ~pipElement) =>
                         after.log = <<"requestPictureInPicture">>
                   /\ after.pc = "done" => after.outcome = "resolved"
                   /\ after.failed # {} =>
                         after.pc = "done" /\ after.failed = Range(after.log)
              ELSE /\ after.log = TheCall.log
                   /\ Len(after.log) = 1
                   /\ after.pc = "done"
                   /\ after.outcome = "resolved"
                   /\ after.failed =
                         IF TheCall.promise = "rejected"
                           THEN Range(after.log) ELSE {}

C12_OnePiPRequest == [][C12_Step]_vars

C12_Witness ==
    /\ last.op = "togglePictureInPicture"
    /\ TheCall.cmd = "togglePictureInPicture"
    /\ TheCall.pc = "done"
    /\ pipElement
    /\ TheCall.log = <<"exitPictureInPicture">>
    /\ TheCall.failed = {"exitPictureInPicture"}
    /\ TheCall.outcome = "resolved"

\* C13: while the menu is mounted the trigger is rendered; the popover is
\* rendered exactly when the open flag is true and a document exists, and
\* then into the boundary element if that reference is present and into the
\* document body otherwise.
C13_PopoverRendering ==
    menuMounted =>
        /\ TriggerRendered
        /\ PopoverRendered <=> (showSpeedMenu /\ hasDocument)
        /\ (PopoverRendered /\ boundaryPresent) => PortalTarget = "boundary"
        /\ (PopoverRendered /\ ~boundaryPresent) => PortalTarget = "body"

C13_Witness ==
    /\ menuMounted
    /\ hasDocument
    /\ showSpeedMenu
    /\ ~boundaryPresent
    /\ ~effectPending
    /\ PopoverRendered
    /\ PortalTarget = "body"

\* The entry method a step of toggleFullscreen saw fail: at invocation the
\* method invoked first threw; at resumption the awaited entry promise was
\* rejected.
ChainFailedNow(before, after) ==
    /\ EnteringCall(after)
    /\ \/ /\ before.pc \in {"idle", "done"}
          /\ after.log # <<>>
          /\ after.log[1] \in EntryMethods \cap after.failed
       \/ /\ before.pc = "awaitEntry"
          /\ before.promise = "rejected"

\* C14: in the step of toggleFullscreen in which the entering chain throws or
\* rejects, the call invokes webkitEnterFullscreen once more if the media
\* element is present at that moment and the host exposes the method, and
\* nothing more otherwise; either way the call ends there, resolved, also
\* when the fallback itself throws.
C14_Step ==
    (last'.op = "toggleFullscreen" /\ ChainFailedNow(TheCall, calls'[1])) =>
        LET after == calls'[1]
            first == <<after.log[1]>>
        IN  /\ after.pc = "done"
            /\ after.outcome = "resolved"
            /\ after.log =
                  IF videoPresent /\ NativeEntry \in after.exposed
                    THEN first \o <<NativeEntry>>
                    ELSE first

C14_FallbackOnce == [][C14_Step]_vars

C14_Witness ==
    /\ EnteringCall(TheCall)
    /\ TheCall.pc = "done"
    /\ TheCall.log = <<"webkitRequestFullscreen", NativeEntry>>
    /\ TheCall.failed = {"webkitRequestFullscreen", NativeEntry}
    /\ TheCall.outcome = "resolved"

\* C15 as stated: a toggleFullscreen call requests the orientation lock
\* (unlock) only after it invoked an entry (exit) method that did not fail;
\* a call that found no method of its chain, or whose method failed,
\* requests neither.
C15_OrientationAfterSuccessOnly ==
    (TheCall.cmd = "toggleFullscreen"
        /\ Range(TheCall.log) \cap OrientationMethods # {})
    => /\ ChainCalls(TheCall) # <<>>
       /\ TheCall.log[1] \in (EntryMethods \cup ExitMethods) \ TheCall.failed

\* C16 as stated: a run of the passive handler writes isFullscreen, calls at
\* most the orientation method that matches the value written (lock when
\* fullscreen, unlock when not), and never throws, whether that call throws
\* synchronously or rejects.
C16_HandlerNeverThrows ==
    last.op = "handleFullscreenChange" =>
        /\ isFullscreen = (docFs # {})
        /\ last.hostCalls \in
              (IF isFullscreen THEN {<<>>, <<OrientationLock>>}
               ELSE {<<>>, <<OrientationUnlock>>})
        /\ last.threw = ""

\* Both slots at rest and no change event pending.
Quiescent ==
    /\ \A c \in Slots : calls[c].pc \in {"idle", "done"}
    /\ pendingEvents = 0

\* C17: whenever every toggleFullscreen invocation has completed and every
\* pending change event has been handled, isFullscreen equals "a fullscreen
\* element exists in the document", however the two invocations, the
\* settlement of their promises and the events interleaved.
C17_RaceConsistent == Quiescent => (isFullscreen = (docFs # {}))

\* Two invocations that overlapped and read the same isFullscreen; one was
\* granted, the other rejected.
C17_Witness ==
    /\ Quiescent
    /\ calls[1].cmd = "toggleFullscreen"
    /\ calls[2].cmd = "toggleFullscreen"
    /\ calls[2].raced
    /\ calls[1].entering /\ calls[2].entering
    /\ calls[1].failed = {"requestFullscreen"}
    /\ calls[2].log = <<"requestFullscreen", OrientationLock>>
    /\ calls[2].failed = {}
    /\ docFs # {}
    /\ isFullscreen

\* C18: a step that invokes toggleFullscreen while the container reference
\* is absent ends the call at once, resolved, with no host method invoked
\* and nothing failed, and changes no state of the shell or of the document.
C18_Step ==
    (last'.op = "toggleFullscreen" /\ TheCall.pc \in {"idle", "done"}
        /\ ~containerPresent)
    => /\ calls'[1].log = <<>>
       /\ calls'[1].failed = {}
       /\ calls'[1].pc = "done"
       /\ calls'[1].outcome = "resolved"
       /\ UNCHANGED <<isFullscreen, isPiPSupported, isAirPlaySupported,
                      docFs, pipElement, pendingEvents, listeners>>

C18_NoContainerNoOp == [][C18_Step]_vars

C18_Witness ==
    /\ last.op = "toggleFullscreen"
    /\ TheCall.cmd = "toggleFullscreen"
    /\ ~TheCall.container
    /\ TheCall.video
    /\ ~TheCall.entering
    /\ TheCall.exposed = FullHost
    /\ TheCall.pc = "done"
    /\ TheCall.log = <<>>
    /\ TheCall.outcome = "resolved"

Toggled == [name |-> "onToggleSpeedMenu", arg |-> 0]

Stored == [name |-> "setMenuPosition", arg |-> 0]

\* C19: a click on the trigger calls onToggleSpeedMenu exactly once, as the
\* last thing it does; a click that opens the menu with the boundary mounted
\* stores the position of the formula before that call; a click that closes
\* the menu leaves the stored position as it is.
C19_Step ==
    menuLast'.op = "handleToggle" =>
        LET cs == menuLast'.callbacks
        IN  /\ Cardinality({k \in 1..Len(cs) : cs[k] = Toggled}) = 1
            /\ cs[Len(cs)] = Toggled
            /\ (~showSpeedMenu /\ boundaryPresent) =>
                  /\ cs = <<Stored, Toggled>>
                  /\ menuPosition' = C10_Formula(buttonRect, boundaryRect)
            /\ showSpeedMenu =>
                  /\ cs = <<Toggled>>
                  /\ menuPosition' = menuPosition

C19_ToggleOnce == [][C19_Step]_vars

C19_Witness ==
    /\ menuLast.op = "handleToggle"
    /\ menuLast.callbacks = <<Stored, Toggled>>
    /\ showSpeedMenu
    /\ effectPending
    /\ buttonRect = [bottom |-> 60, right |-> 50]
    /\ boundaryRect = [top |-> 20, left |-> 0]
    /\ menuPosition = [top |-> 50, left |-> 50]

\* The geometry an opening can be anchored against: the boundary's, or, when
\* the boundary element is absent, any geometry at all (the origin of the
\* document body included).
AnchorRects ==
    IF boundaryPresent THEN {boundaryRect}
    ELSE BoundaryRects \cup {[top |-> 0, left |-> 0]}

Recomputed(pos) ==
    \E c \in AnchorRects : pos = C10_Formula(buttonRect, c)

\* C20 as stated: every opening recomputes the position from the geometry
\* of that moment (the click that opens the menu, or the effect that runs
\* after the open flag was set), also when the boundary element is absent,
\* and no other step changes the position while the menu stays open.
C20_Step ==
    /\ (menuLast'.op = "handleToggle" /\ ~showSpeedMenu /\ showSpeedMenu')
          => Recomputed(menuPosition')
    /\ (menuLast'.op = "effect" /\ showSpeedMenu /\ menuMounted)
          => Recomputed(menuPosition')
    /\ (menuLast'.op \notin {"handleToggle", "effect", "mount"}
           /\ showSpeedMenu /\ showSpeedMenu')
          => menuPosition' = menuPosition

C20_RecomputedOnOpen == [][C20_Step]_vars

====
